---- MODULE Spec2Model ----
(***************************************************************************)
(* Authentication core of the FastAPI service: password hashing            *)
(* (app/auth.py get_password_hash, verify_password), token issuance and    *)
(* verification (create_access_token, get_current_user), login             *)
(* (authenticate_user, main.py login_for_access_token) and registration    *)
(* (crud.py create_user).                                                  *)
(*                                                                         *)
(* The library calls the source makes are modelled by what the libraries   *)
(* do on the call's arguments: passlib CryptContext(schemes=["bcrypt"])    *)
(* for hash/verify, python-jose jwt.encode/jwt.decode for the token.       *)
(*                                                                         *)
(* Time is counted in ticks, TicksPerSec ticks to the second; datetime     *)
(* values are tick counts and the token's "exp" claim is whole seconds.    *)
(* An optional argument (timedelta | None) is a set with at most one       *)
(* element: {} is None, {d} is the timedelta of d ticks.                   *)
(***************************************************************************)
EXTENDS Integers, Sequences, FiniteSets, TLC

VARIABLES
    users,      \* table "users": sequence of rows [id, name, password]
    nextId,     \* next value of the users.id sequence
    saltCtr,    \* number of password hashes computed so far (source of fresh salts)
    registered, \* history: <<name, secret, id>> of every account created
    now,        \* the clock, datetime.utcnow(), in ticks
    held,       \* the token the client holds, with how it was issued
    resp,       \* the response of the last request
    hashes,     \* hasher runs: results of the get_password_hash calls made
    hres,       \* hasher runs: the last call and its result
    products,   \* table "products": sequence of rows [id, name, price, user_id]
    nextProductId, \* next value of the products.id sequence
    sales,      \* table "sales": sequence of rows [id, product_id, user_id]
    nextSaleId, \* next value of the sales.id sequence
    lookups,    \* storage queries get_current_user executed in the last request
    body        \* the last request, if read_product: the id asked for, the row returned

shopVars == <<products, nextProductId, sales, nextSaleId, lookups, body>>

vars == <<users, nextId, saltCtr, registered, now, held, resp, hashes, hres,
          products, nextProductId, sales, nextSaleId, lookups, body>>

\* ------------------------------------------------------------------ bounds

TicksPerSec == 2
MaxExtraTicks == 4
MaxHashes == 2
MaxProducts == 2
MaxSales == 1

\* ------------------------------------------------- configuration (auth.py)

SECRET_KEY == "a_secure_secret_key"
ALGORITHM == "HS256"
ACCESS_TOKEN_EXPIRE_MINUTES == 30

\* bcrypt reads at most this many bytes of the secret
BCRYPT_TRUNCATE_SIZE == 72

HTTP_200_OK == 200
HTTP_401_UNAUTHORIZED == 401
HTTP_500_INTERNAL_SERVER_ERROR == 500

\* timedelta(minutes=m), in ticks
Minutes(m) == m * 60 * TicksPerSec

\* the whole second a datetime falls in: timegm(dt.utctimetuple())
EpochSeconds(t) == t \div TicksPerSec

NoExc == "none"

\* ---------------------------------------------------------------- secrets
\* A secret is a sequence of bytes.  Two short secrets, two secrets longer
\* than bcrypt's 72 bytes that differ only in their last byte, and one
\* secret holding a NUL byte.

Pad == [i \in 1..BCRYPT_TRUNCATE_SIZE |-> 120]
SecretA == <<112, 119, 49>>
SecretB == <<112, 119, 50>>
LongA == Pad \o <<97>>
LongB == Pad \o <<98>>
NulSecret == <<112, 0, 119>>
Secrets == {SecretA, SecretB, LongA, LongB, NulSecret}
\* the secrets used at registration and login
FormSecrets == {SecretA, SecretB, NulSecret}

Names == {"alice", "bob"}

HasNul(secret) == \E i \in 1..Len(secret) : secret[i] = 0

Min(a, b) == IF a < b THEN a ELSE b

\* ------------------------------------------------------- Credential Hasher
\* A stored credential is [fmt, salt, digest]:
\*   fmt "bcrypt"     a well-formed "$2b$12$<salt><digest>" string
\*   fmt "malformed"  a string with a bcrypt prefix that does not parse
\*   fmt "unknown"    a string no scheme of the context identifies
\*   fmt "null"       no value (None)

NoHash == [fmt |-> "null", salt |-> 0, digest |-> <<>>]
UnknownStored == [fmt |-> "unknown", salt |-> 0, digest |-> <<>>]
MalformedStored == [fmt |-> "malformed", salt |-> 0, digest |-> <<>>]

\* bcrypt's key: the first 72 bytes of the secret
BcryptKey(secret) == SubSeq(secret, 1, Min(Len(secret), BCRYPT_TRUNCATE_SIZE))

\* The digest is a one-way, collision-free function of the salt and of the
\* key; it is kept here as the pair it was computed from.
BcryptDigest(salt, secret) == <<salt, BcryptKey(secret)>>

\* pwd_context.hash(password) with the salt drawn for this call
get_password_hash(password, salt) ==
    IF HasNul(password)
    THEN [exc |-> "PasswordValueError", val |-> NoHash]
    ELSE [exc |-> NoExc,
          val |-> [fmt |-> "bcrypt", salt |-> salt,
                   digest |-> BcryptDigest(salt, password)]]

\* pwd_context.verify(plain_password, hashed_password)
verify_password(plain_password, hashed_password) ==
    IF hashed_password.fmt = "null"
    THEN [exc |-> NoExc, val |-> FALSE]
    ELSE IF hashed_password.fmt = "unknown"
    THEN [exc |-> "UnknownHashError", val |-> FALSE]
    ELSE IF hashed_password.fmt = "malformed"
    THEN [exc |-> "ValueError", val |-> FALSE]
    ELSE IF HasNul(plain_password)
    THEN [exc |-> "PasswordValueError", val |-> FALSE]
    ELSE [exc |-> NoExc,
          val |-> BcryptDigest(hashed_password.salt, plain_password)
                      = hashed_password.digest]

\* ------------------------------------------------------------ Token Codec
\* A token is [wellformed, alg, claims, sig]: whether the string splits into
\* three base64url segments that decode, the header's "alg", the payload
\* (a function from claim names to values) and the signature.  A signature
\* is the MAC's inputs [key, alg, claims] (a MAC agrees exactly when its
\* inputs agree) and whether a byte of it was flipped afterwards.

NoClaims == <<>>
NoSig == [key |-> "", alg |-> "", claims |-> NoClaims, flipped |-> FALSE]
Mac(key, alg, claims) ==
    [key |-> key, alg |-> alg, claims |-> claims, flipped |-> FALSE]
MalformedToken ==
    [wellformed |-> FALSE, alg |-> "", claims |-> NoClaims, sig |-> NoSig]

\* jwt.encode(claims, key, algorithm): a datetime "exp" becomes whole seconds
jwt_encode(claims, key, algorithm) ==
    LET payload == [k \in DOMAIN claims |->
                       IF k = "exp" THEN EpochSeconds(claims[k]) ELSE claims[k]]
    IN [wellformed |-> TRUE, alg |-> algorithm, claims |-> payload,
        sig |-> Mac(key, algorithm, payload)]

\* jwt.decode as it would be if it trusted the header: no list of allowed
\* algorithms, and the signature checked the way the header's "alg" says
jwt_decode_trust_header(token, key, algorithms, utcnow) ==
    IF ~token.wellformed
    THEN [exc |-> "JWTError", claims |-> NoClaims]
    ELSE IF token.alg # "none" /\ token.sig # Mac(key, token.alg, token.claims)
    THEN [exc |-> "JWTError", claims |-> NoClaims]
    ELSE IF "exp" \in DOMAIN token.claims
            /\ token.claims["exp"] < EpochSeconds(utcnow)
    THEN [exc |-> "ExpiredSignatureError", claims |-> NoClaims]
    ELSE [exc |-> NoExc, claims |-> token.claims]

\* jwt.decode(token, key, algorithms) at time utcnow: [exc, claims].  exc is
\* the class of the exception raised: a string that does not parse, a
\* header algorithm that is not allowed and a signature that does not match
\* all raise JWTError (they differ in the exception's message only); an
\* "exp" in the past raises its subclass ExpiredSignatureError.
jwt_decode(token, key, algorithms, utcnow) ==
    IF ~token.wellformed
    THEN [exc |-> "JWTError", claims |-> NoClaims]
    ELSE IF token.alg \notin algorithms
    THEN [exc |-> "JWTError", claims |-> NoClaims]
    ELSE IF token.sig # Mac(key, token.alg, token.claims)
    THEN [exc |-> "JWTError", claims |-> NoClaims]
    ELSE IF "exp" \in DOMAIN token.claims
            /\ token.claims["exp"] < EpochSeconds(utcnow)
    THEN [exc |-> "ExpiredSignatureError", claims |-> NoClaims]
    ELSE [exc |-> NoExc, claims |-> token.claims]

\* to_encode as it would be with the delta subtracted
to_encode_past(data, expires_delta, utcnow) ==
    LET expire == IF expires_delta # {} /\ expires_delta # {0}
                  THEN utcnow - (CHOOSE d \in expires_delta : TRUE)
                  ELSE utcnow + Minutes(ACCESS_TOKEN_EXPIRE_MINUTES)
    IN [k \in DOMAIN data \cup {"exp"} |->
           IF k = "exp" THEN expire ELSE data[k]]

\* the dict create_access_token signs: data.copy() updated with "exp";
\* `if expires_delta:` takes the default for None and for timedelta(0)
to_encode(data, expires_delta, utcnow) ==
    LET expire == IF expires_delta # {} /\ expires_delta # {0}
                  THEN utcnow + (CHOOSE d \in expires_delta : TRUE)
                  ELSE utcnow + Minutes(ACCESS_TOKEN_EXPIRE_MINUTES)
    IN [k \in DOMAIN data \cup {"exp"} |->
           IF k = "exp" THEN expire ELSE data[k]]

create_access_token(data, expires_delta, utcnow) ==
    jwt_encode(to_encode(data, expires_delta, utcnow), SECRET_KEY, ALGORITHM)

\* ---------------------------------------------------------------- storage

NoUser == [id |-> 0, name |-> "", password |-> NoHash]

\* the query as it would be without its filter
UserByName_any(db, username) ==
    IF db = <<>> THEN NoUser ELSE db[1]

\* db.query(models.User).filter(models.User.name == username).first()
UserByName(db, username) ==
    LET hits == {i \in 1..Len(db) : db[i].name = username}
    IN IF hits = {} THEN NoUser
       ELSE db[CHOOSE i \in hits : \A j \in hits : i <= j]

\* ----------------------------------------------------------- Authenticator
\* [exc, user]: user is NoUser where the code returns False

authenticate_user(db, username, password) ==
    LET user == UserByName(db, username)
        v == verify_password(password, user.password)
    IN IF user = NoUser THEN [exc |-> NoExc, user |-> NoUser]
       ELSE IF v.exc # NoExc THEN [exc |-> v.exc, user |-> NoUser]
       ELSE IF ~v.val THEN [exc |-> NoExc, user |-> NoUser]
       ELSE [exc |-> NoExc, user |-> user]

\* ------------------------------------------------------------- responses

WWWAuthenticate == "WWW-Authenticate: Bearer"

HTTPResponse(status, detail, headers) ==
    [status |-> status, detail |-> detail, headers |-> headers]

\* what the server answers when a handler lets an exception escape
InternalServerError ==
    HTTPResponse(HTTP_500_INTERNAL_SERVER_ERROR, "Internal Server Error", "")

credentials_exception ==
    HTTPResponse(HTTP_401_UNAUTHORIZED, "Could not validate credentials",
                 WWWAuthenticate)

\* -------------------------------------------------------- Identity Resolver
\* [raised, user, cause, exc, lookups]: raised is the HTTPException raised
\* (or OK), cause the place that raised it, exc the exception jwt.decode
\* raised, lookups the number of storage queries executed.

OK == HTTPResponse(HTTP_200_OK, "", "")

\* get_current_user as it would be if a missing account were a 404
get_current_user_404(token, db, utcnow) ==
    LET d == jwt_decode(token, SECRET_KEY, {ALGORITHM}, utcnow)
        username == IF "sub" \in DOMAIN d.claims THEN d.claims["sub"] ELSE "None"
        user == UserByName(db, username)
    IN IF d.exc # NoExc
       THEN [raised |-> credentials_exception, user |-> NoUser,
             cause |-> "decode", exc |-> d.exc, lookups |-> 0]
       ELSE IF "sub" \notin DOMAIN d.claims
       THEN [raised |-> credentials_exception, user |-> NoUser,
             cause |-> "nosub", exc |-> NoExc, lookups |-> 0]
       ELSE IF user = NoUser
       THEN [raised |-> HTTPResponse(404, "User not found", ""),
             user |-> NoUser, cause |-> "nouser", exc |-> NoExc,
             lookups |-> 1]
       ELSE [raised |-> OK, user |-> user, cause |-> "", exc |-> NoExc,
             lookups |-> 1]

\* get_current_user as it would be with the query made before the decoding
get_current_user_eager(token, db, utcnow) ==
    LET d == jwt_decode(token, SECRET_KEY, {ALGORITHM}, utcnow)
        username == IF "sub" \in DOMAIN d.claims THEN d.claims["sub"] ELSE "None"
        user == UserByName(db, username)
    IN IF d.exc # NoExc
       THEN [raised |-> credentials_exception, user |-> NoUser,
             cause |-> "decode", exc |-> d.exc, lookups |-> 1]
       ELSE IF "sub" \notin DOMAIN d.claims
       THEN [raised |-> credentials_exception, user |-> NoUser,
             cause |-> "nosub", exc |-> NoExc, lookups |-> 1]
       ELSE IF user = NoUser
       THEN [raised |-> credentials_exception, user |-> NoUser,
             cause |-> "nouser", exc |-> NoExc,
             lookups |-> 1]
       ELSE [raised |-> OK, user |-> user, cause |-> "", exc |-> NoExc,
             lookups |-> 1]

\* lookups counts the db.query(...).first() calls executed: the query of
\* line 133 is reached only when the token decoded and carried a subject
get_current_user(token, db, utcnow) ==
    LET d == jwt_decode(token, SECRET_KEY, {ALGORITHM}, utcnow)
        username == IF "sub" \in DOMAIN d.claims THEN d.claims["sub"] ELSE "None"
        user == UserByName(db, username)
    IN IF d.exc # NoExc
       THEN [raised |-> credentials_exception, user |-> NoUser,
             cause |-> "decode", exc |-> d.exc, lookups |-> 0]
       ELSE IF "sub" \notin DOMAIN d.claims
       THEN [raised |-> credentials_exception, user |-> NoUser,
             cause |-> "nosub", exc |-> NoExc, lookups |-> 0]
       ELSE IF user = NoUser
       THEN [raised |-> credentials_exception, user |-> NoUser,
             cause |-> "nouser", exc |-> NoExc,
             lookups |-> 1]
       ELSE [raised |-> OK, user |-> user, cause |-> "", exc |-> NoExc,
             lookups |-> 1]

\* ------------------------------------------------------------------ login
\* main.py login_for_access_token: [raised, issued, token, user]

NoToken == MalformedToken

login_for_access_token(db, username, password, utcnow) ==
    LET a == authenticate_user(db, username, password)
    IN IF a.exc # NoExc
       THEN [raised |-> InternalServerError, issued |-> FALSE,
             token |-> NoToken, user |-> NoUser]
       ELSE IF a.user = NoUser
       THEN [raised |-> HTTPResponse(HTTP_401_UNAUTHORIZED,
                                     "Incorrect username or password",
                                     WWWAuthenticate),
             issued |-> FALSE, token |-> NoToken, user |-> NoUser]
       ELSE [raised |-> OK, issued |-> TRUE,
             token |-> create_access_token(
                           [sub |-> a.user.name],
                           {Minutes(ACCESS_TOKEN_EXPIRE_MINUTES)}, utcnow),
             user |-> a.user]

\* ------------------------------------------------------------ registration
\* crud.py create_user: [exc, db, user]; users.name is unique (models.py)

NameTaken(db, name) == \E i \in 1..Len(db) : db[i].name = name

create_user(db, id, name, password, salt) ==
    LET h == get_password_hash(password, salt)
        db_user == [id |-> id, name |-> name, password |-> h.val]
    IN IF h.exc # NoExc
       THEN [exc |-> h.exc, db |-> db, user |-> NoUser]
       ELSE IF NameTaken(db, name)
       THEN [exc |-> "IntegrityError", db |-> db, user |-> NoUser]
       ELSE [exc |-> NoExc, db |-> Append(db, db_user), user |-> db_user]

\* ------------------------------------------------------ products and sales
\* crud.py create_product, get_product, create_sale and main.py read_product

NoProduct == [id |-> 0, name |-> "", price |-> 0, user_id |-> 0]
NoSale == [id |-> 0, product_id |-> 0, user_id |-> 0]

\* db.query(models.User).filter(models.User.id == user_id).first()
UserById(db, user_id) ==
    LET hits == {i \in 1..Len(db) : db[i].id = user_id}
    IN IF hits = {} THEN NoUser
       ELSE db[CHOOSE i \in hits : \A j \in hits : i <= j]

\* db.query(models.Product).filter(models.Product.id == product_id).first()
ProductById(pdb, product_id) ==
    LET hits == {i \in 1..Len(pdb) : pdb[i].id = product_id}
    IN IF hits = {} THEN NoProduct
       ELSE pdb[CHOOSE i \in hits : \A j \in hits : i <= j]

\* crud.create_product: [exc, db, product]; products.user_id is a foreign
\* key to users.id (models.py), checked when the INSERT is committed
create_product(pdb, id, product, udb) ==
    LET db_product == [id |-> id, name |-> product.name,
                       price |-> product.price, user_id |-> product.user_id]
    IN IF UserById(udb, product.user_id) = NoUser
       THEN [exc |-> "IntegrityError", db |-> pdb, product |-> NoProduct]
       ELSE [exc |-> NoExc, db |-> Append(pdb, db_product), product |-> db_product]

\* get_product as it would be without the filter on the owner
get_product_any_owner(pdb, product_id, user_id) ==
    ProductById(pdb, product_id)

\* crud.get_product: the row with this id and this owner, or None
get_product(pdb, product_id, user_id) ==
    LET hits == {i \in 1..Len(pdb) :
                    pdb[i].id = product_id /\ pdb[i].user_id = user_id}
    IN IF hits = {} THEN NoProduct
       ELSE pdb[CHOOSE i \in hits : \A j \in hits : i <= j]

\* crud.create_sale: [exc, db, sale]
create_sale(sdb, id, sale, pdb, udb) ==
    LET product == ProductById(pdb, sale.product_id)
        user == UserById(udb, sale.user_id)
        db_sale == [id |-> id, product_id |-> sale.product_id,
                    user_id |-> sale.user_id]
    IN IF product = NoProduct \/ user = NoUser
       THEN [exc |-> "ValueError", db |-> sdb, sale |-> NoSale]
       ELSE [exc |-> NoExc, db |-> Append(sdb, db_sale), sale |-> db_sale]

ProductNotFound == HTTPResponse(404, "Product not found", "")

\* main.py read_product with its dependency get_current_user:
\* [raised, user, cause, exc, lookups, product]
read_product(token, product_id, udb, pdb, utcnow) ==
    LET r == get_current_user(token, udb, utcnow)
        db_product == get_product(pdb, product_id, r.user.id)
    IN IF r.raised # OK
       THEN [raised |-> r.raised, user |-> NoUser, cause |-> r.cause,
             exc |-> r.exc, lookups |-> r.lookups, product |-> NoProduct]
       ELSE IF db_product = NoProduct
       THEN [raised |-> ProductNotFound, user |-> r.user, cause |-> "",
             exc |-> NoExc, lookups |-> r.lookups, product |-> NoProduct]
       ELSE [raised |-> OK, user |-> r.user, cause |-> "", exc |-> NoExc,
             lookups |-> r.lookups, product |-> db_product]

\* ------------------------------------------------------------------ state

NoBody == [product_id |-> 0, product |-> NoProduct]

NoHeld ==
    [via |-> "none", token |-> NoToken, claims |-> NoClaims, issuedAt |-> 0,
     delta |-> {}, data |-> NoClaims, authId |-> 0]

Response(op, raised, userId, cause, exc, variant) ==
    [op |-> op, raised |-> raised, userId |-> userId, cause |-> cause,
     exc |-> exc, variant |-> variant]

NoResponse == Response("none", OK, 0, "", NoExc, "")

NoHashResult ==
    [op |-> "none", plain |-> <<>>, stored |-> NoHash, exc |-> NoExc, val |-> FALSE]

\* The end of the modelled time: a login token's lifetime and a little
\* more.  The clock moves by ticks in the first MaxExtraTicks ticks and can
\* jump ahead by a login token's lifetime.
TokenLifetime == Minutes(ACCESS_TOKEN_EXPIRE_MINUTES)
Horizon == TokenLifetime + MaxExtraTicks

\* what callers pass create_access_token as data ...
FarFuture == 10 * Horizon
TokenData ==
    {[sub |-> n] : n \in Names}
        \cup {[sub |-> "alice", exp |-> FarFuture], NoClaims}

\* ... and as expires_delta: None, 0, -1 s, one tick, 1 s
TokenDeltas == {{}, {0}, {-TicksPerSec}, {1}, {TicksPerSec}}

\* The tokens a client can present: the held one, the held one with a byte
\* of its signature flipped, with its header rewritten to another algorithm
\* (unsigned, signature kept, or signed again under that algorithm), a
\* string that is no token, and tokens made without the server.
FlipSignature(t) == [t EXCEPT !.sig.flipped = ~t.sig.flipped]
WithAlgUnsigned(t, alg) == [t EXCEPT !.alg = alg, !.sig = NoSig]
WithAlgHeader(t, alg) == [t EXCEPT !.alg = alg]
WithAlgSigned(t, alg, key) == [t EXCEPT !.alg = alg, !.sig = Mac(key, alg, t.claims)]

ForgedClaims(n) == [sub |-> n, exp |-> EpochSeconds(FarFuture)]
ForgedToken(n, alg, sig) ==
    [wellformed |-> TRUE, alg |-> alg, claims |-> ForgedClaims(n), sig |-> sig]
Forged ==
    {<<"malformed", MalformedToken>>}
    \cup {<<"forged_key",
            ForgedToken(n, ALGORITHM, Mac("guess", ALGORITHM, ForgedClaims(n)))>>
             : n \in Names}
    \cup {<<"forged_none", ForgedToken(n, "none", NoSig)>> : n \in Names}

Presentable(h) ==
    IF h.via = "none" THEN Forged
    ELSE Forged \cup
         {<<"held", h.token>>,
          <<"flipped", FlipSignature(h.token)>>,
          <<"alg_none", WithAlgUnsigned(h.token, "none")>>,
          <<"alg_none_header", WithAlgHeader(h.token, "none")>>,
          <<"alg_other", WithAlgSigned(h.token, "HS384", SECRET_KEY)>>}

\* ----------------------------------------------------------------- actions

\* POST /users/ (main.py create_user -> crud.create_user).  The id sequence
\* moves on every INSERT attempted, also one the unique index rejects.
CreateUser(name, password) ==
    LET r == create_user(users, nextId, name, password, saltCtr + 1)
        inserted == r.exc \in {NoExc, "IntegrityError"}
    IN /\ saltCtr < MaxHashes
       /\ users' = r.db
       /\ nextId' = IF inserted THEN nextId + 1 ELSE nextId
       /\ saltCtr' = IF inserted THEN saltCtr + 1 ELSE saltCtr
       /\ registered' = IF r.exc = NoExc
                        THEN registered \cup {<<name, password, r.user.id>>}
                        ELSE registered
       /\ resp' = Response("create_user",
                           IF r.exc = NoExc THEN OK ELSE InternalServerError,
                           r.user.id, "", r.exc, "")
       /\ UNCHANGED <<now, held, hashes, hres>>
       /\ lookups' = 0
       /\ body' = NoBody
       /\ UNCHANGED <<products, nextProductId, sales, nextSaleId>>

\* POST /token
Login(username, password) ==
    LET r == login_for_access_token(users, username, password, now)
    IN /\ resp' = Response("login", r.raised, r.user.id, "", NoExc, "")
       /\ held' = IF r.issued
                  THEN [via |-> "login", token |-> r.token,
                        claims |-> to_encode([sub |-> r.user.name],
                                             {TokenLifetime}, now),
                        issuedAt |-> now, delta |-> {TokenLifetime},
                        data |-> [sub |-> r.user.name], authId |-> r.user.id]
                  ELSE held
       /\ UNCHANGED <<users, nextId, saltCtr, registered, now, hashes, hres>>
       /\ lookups' = 0
       /\ body' = NoBody
       /\ UNCHANGED <<products, nextProductId, sales, nextSaleId>>

\* a call of create_access_token(data, expires_delta)
IssueToken(data, expires_delta) ==
    /\ held' = [via |-> "direct",
                token |-> create_access_token(data, expires_delta, now),
                claims |-> to_encode(data, expires_delta, now),
                issuedAt |-> now, delta |-> expires_delta, data |-> data,
                authId |-> 0]
    /\ resp' = Response("create_access_token", OK, 0, "", NoExc, "")
    /\ UNCHANGED <<users, nextId, saltCtr, registered, now, hashes, hres>>
    /\ UNCHANGED shopVars

\* a protected request: the dependency get_current_user runs on the token
GetCurrentUser(variant, token) ==
    LET r == get_current_user(token, users, now)
    IN /\ resp' = Response("get_current_user", r.raised, r.user.id, r.cause,
                           r.exc, variant)
       /\ lookups' = r.lookups
       /\ UNCHANGED <<users, nextId, saltCtr, registered, now, held, hashes, hres>>
       /\ body' = NoBody
       /\ UNCHANGED <<products, nextProductId, sales, nextSaleId>>

\* time passes: d ticks, up to the horizon
Advance(d, horizon) ==
    /\ now + d <= horizon
    /\ now' = now + d
    /\ UNCHANGED <<users, nextId, saltCtr, registered, held, resp, hashes, hres>>
    /\ UNCHANGED shopVars

\* a call of get_password_hash; the salt is fresh
HashSecret(password) ==
    LET h == get_password_hash(password, Len(hashes) + 1)
    IN /\ Len(hashes) < MaxHashes
       /\ hashes' = Append(hashes, [secret |-> password, exc |-> h.exc, val |-> h.val])
       /\ hres' = [op |-> "hash", plain |-> password, stored |-> h.val,
                   exc |-> h.exc, val |-> FALSE]
       /\ UNCHANGED <<users, nextId, saltCtr, registered, now, held, resp>>
       /\ UNCHANGED shopVars

\* the stored values verify_password can be given: the hashes made so far,
\* and values that are no hash
StoredValues ==
    {hashes[i].val : i \in {j \in 1..Len(hashes) : hashes[j].exc = NoExc}}
        \cup {UnknownStored, MalformedStored, NoHash}

\* a call of verify_password
VerifySecret(plain, stored) ==
    LET v == verify_password(plain, stored)
    IN /\ hres' = [op |-> "verify", plain |-> plain, stored |-> stored,
                   exc |-> v.exc, val |-> v.val]
       /\ UNCHANGED <<users, nextId, saltCtr, registered, now, held, resp, hashes>>
       /\ UNCHANGED shopVars

\* a call of authenticate_user on a table whose one row holds `stored`
StoredRow(stored) == [id |-> 1, name |-> "alice", password |-> stored]

AuthenticateStored(plain, stored) ==
    LET a == authenticate_user(<<StoredRow(stored)>>, "alice", plain)
    IN /\ hres' = [op |-> "authenticate", plain |-> plain, stored |-> stored,
                   exc |-> a.exc, val |-> a.user # NoUser]
       /\ UNCHANGED <<users, nextId, saltCtr, registered, now, held, resp, hashes>>
       /\ UNCHANGED shopVars

\* the request bodies and path parameters of the product and sale routes
ProductInputs ==
    {[name |-> "widget", price |-> 10, user_id |-> u] : u \in 1..MaxHashes}
SaleInputs ==
    {[product_id |-> q, user_id |-> u] : q \in 1..MaxProducts, u \in 1..MaxHashes}
ProductIds == 1..MaxProducts

\* the tokens presented to the product and sale routes
ShopTokens(h) ==
    {p \in Presentable(h) : p[1] \in {"held", "flipped"}}

\* POST /products/ (main.py create_product): the dependency, then
\* crud.create_product; the id sequence moves on every INSERT attempted
CreateProduct(variant, token, product) ==
    LET r == get_current_user(token, users, now)
        c == create_product(products, nextProductId, product, users)
    IN /\ nextProductId <= MaxProducts
       /\ lookups' = r.lookups
       /\ IF r.raised # OK
          THEN /\ resp' = Response("create_product", r.raised, 0, r.cause,
                                   r.exc, variant)
               /\ UNCHANGED <<products, nextProductId>>
          ELSE /\ resp' = Response("create_product",
                                   IF c.exc = NoExc THEN OK ELSE InternalServerError,
                                   r.user.id, "", c.exc, variant)
               /\ products' = c.db
               /\ nextProductId' = nextProductId + 1
       /\ UNCHANGED <<users, nextId, saltCtr, registered, now, held, hashes, hres>>
       /\ body' = NoBody
       /\ UNCHANGED <<sales, nextSaleId>>

\* GET /products/{product_id} (main.py read_product)
ReadProduct(variant, token, product_id) ==
    LET r == read_product(token, product_id, users, products, now)
    IN /\ resp' = Response("read_product", r.raised, r.user.id, r.cause,
                           r.exc, variant)
       /\ lookups' = r.lookups
       /\ body' = [product_id |-> product_id, product |-> r.product]
       /\ UNCHANGED <<users, nextId, saltCtr, registered, now, held, hashes, hres>>
       /\ UNCHANGED <<products, nextProductId, sales, nextSaleId>>

\* POST /sales/ (main.py create_sale): the dependency, then crud.create_sale
CreateSale(variant, token, sale) ==
    LET r == get_current_user(token, users, now)
        c == create_sale(sales, nextSaleId, sale, products, users)
    IN /\ nextSaleId <= MaxSales
       /\ lookups' = r.lookups
       /\ IF r.raised # OK
          THEN /\ resp' = Response("create_sale", r.raised, 0, r.cause,
                                   r.exc, variant)
               /\ UNCHANGED <<sales, nextSaleId>>
          ELSE /\ resp' = Response("create_sale",
                                   IF c.exc = NoExc THEN OK ELSE InternalServerError,
                                   r.user.id, "", c.exc, variant)
               /\ sales' = c.db
               /\ nextSaleId' = IF c.exc = NoExc THEN nextSaleId + 1 ELSE nextSaleId
       /\ UNCHANGED <<users, nextId, saltCtr, registered, now, held, hashes, hres>>
       /\ body' = NoBody
       /\ UNCHANGED <<products, nextProductId>>

\* ---------------------------------------------------------- specifications

\* no product, no sale, no protected request made yet
ShopInit ==
    /\ products = <<>>
    /\ nextProductId = 1
    /\ sales = <<>>
    /\ nextSaleId = 1
    /\ lookups = 0
    /\ body = NoBody

\* the service: registration, login, protected requests, time
Init ==
    /\ users = <<>>
    /\ nextId = 1
    /\ saltCtr = 0
    /\ registered = {}
    /\ now = 0
    /\ held = NoHeld
    /\ resp = NoResponse
    /\ hashes = <<>>
    /\ hres = NoHashResult
    /\ ShopInit

Next ==
    \/ \E n \in Names, s \in FormSecrets : CreateUser(n, s)
    \/ \E n \in Names, s \in FormSecrets : Login(n, s)
    \/ \E p \in Presentable(held) : GetCurrentUser(p[1], p[2])
    \/ Advance(1, MaxExtraTicks)
    \/ Advance(TokenLifetime, Horizon)

Spec == Init /\ [][Next]_vars

\* the token codec and the resolver: tokens issued with any data and ttl,
\* over a table that is empty or holds alice's account
AliceRegistered == create_user(<<>>, 1, "alice", SecretA, 1)

TokenInit ==
    /\ \/ /\ users = <<>>
          /\ nextId = 1
          /\ saltCtr = 0
          /\ registered = {}
       \/ /\ users = AliceRegistered.db
          /\ nextId = 2
          /\ saltCtr = 1
          /\ registered = {<<"alice", SecretA, 1>>}
    /\ now = 0
    /\ held = NoHeld
    /\ resp = NoResponse
    /\ hashes = <<>>
    /\ hres = NoHashResult
    /\ ShopInit

TokenNext ==
    \/ \E data \in TokenData, delta \in TokenDeltas : IssueToken(data, delta)
    \/ \E p \in Presentable(held) : GetCurrentUser(p[1], p[2])
    \/ Advance(1, MaxExtraTicks)

TokenSpec == TokenInit /\ [][TokenNext]_vars

\* the protected routes: registration, login, products, sales
ShopNext ==
    \/ \E n \in Names : CreateUser(n, SecretA)
    \/ \E n \in Names : Login(n, SecretA)
    \/ \E p \in ShopTokens(held) : GetCurrentUser(p[1], p[2])
    \/ \E p \in ShopTokens(held), product \in ProductInputs :
           CreateProduct(p[1], p[2], product)
    \/ \E p \in ShopTokens(held), q \in ProductIds : ReadProduct(p[1], p[2], q)
    \/ \E p \in ShopTokens(held), sale \in SaleInputs : CreateSale(p[1], p[2], sale)

ShopSpec == Init /\ [][ShopNext]_vars

\* the credential hasher
HashNext ==
    \/ \E s \in Secrets : HashSecret(s)
    \/ \E s \in Secrets, st \in StoredValues : VerifySecret(s, st)
    \/ \E s \in Secrets, st \in StoredValues : AuthenticateStored(s, st)

HashSpec == Init /\ [][HashNext]_vars

\* ------------------------------------------------------------------ claims

\* the timedelta an issuance was given
Ttl(h) == CHOOSE d \in h.delta : TRUE
Verify(token) == jwt_decode(token, SECRET_KEY, {ALGORITHM}, now)
Resolve(token) == get_current_user(token, users, now)
Fails(r) == r.raised # OK
Accounts(name) == {t \in registered : t[1] = name}

\* C1: a token issued by create_access_token({"sub": subject}, ttl) with
\* ttl > 0 passes get_current_user's verification step while the clock still
\* shows the time of issuance, and the subject read from it is the subject
\* issued; a request made with it then did not fail in that step.
C1_RoundTrip ==
    (/\ held.via # "none"
     /\ DOMAIN held.data = {"sub"}
     /\ held.delta # {}
     /\ Ttl(held) > 0
     /\ now = held.issuedAt)
    => /\ Verify(held.token).exc = NoExc
       /\ "sub" \in DOMAIN Verify(held.token).claims
       /\ Verify(held.token).claims["sub"] = held.data["sub"]
       /\ Resolve(held.token).cause \in {"", "nouser"}
       /\ (resp.op = "get_current_user" /\ resp.variant = "held")
              => resp.cause \in {"", "nouser"}

C1_Witness ==
    /\ held.via = "direct"
    /\ held.data = [sub |-> "alice"]
    /\ held.delta = {1}
    /\ held.issuedAt = 1
    /\ now = held.issuedAt
    /\ resp.op = "get_current_user"
    /\ resp.variant = "held"
    /\ resp.raised = OK
    /\ resp.userId = 1

\* C2: in every state of the table, a login with a name that has no account
\* and a login with an existing name and a secret that is not the account's
\* have the same outcome: authenticate_user returns the same value, the
\* response has the same status, detail and headers, and no token is issued.
C2_SameLoginFailure ==
    \A n1 \in Names, n2 \in Names, s1 \in FormSecrets, s2 \in FormSecrets :
        (/\ Accounts(n1) = {}
         /\ Accounts(n2) # {}
         /\ \A t \in Accounts(n2) : t[2] # s2)
        => LET a1 == authenticate_user(users, n1, s1)
               a2 == authenticate_user(users, n2, s2)
               l1 == login_for_access_token(users, n1, s1, now)
               l2 == login_for_access_token(users, n2, s2, now)
           IN /\ a1 = a2
              /\ l1.raised = l2.raised
              /\ ~l1.issued
              /\ ~l2.issued

\* C3: every failure of get_current_user is the same 401 credentials
\* exception: for a string that is no token, a bad signature, an expired
\* token, a token without subject, and a valid token whose subject has no
\* account; and every failed request got exactly that response.
C3_OneFailure ==
    /\ \A p \in Presentable(held) :
           Fails(Resolve(p[2]))
           => /\ Resolve(p[2]).raised = credentials_exception
              /\ Resolve(p[2]).user = NoUser
    /\ (resp.op = "get_current_user" /\ Fails(resp))
           => resp.raised = credentials_exception /\ resp.userId = 0

C3_Witness ==
    /\ resp.op = "get_current_user"
    /\ resp.variant = "held"
    /\ resp.cause = "nouser"
    /\ resp.raised = credentials_exception
    /\ Verify(held.token).exc = NoExc
    /\ held.data = [sub |-> "bob"]
    /\ users # <<>>

\* C4: a correctly signed token is accepted by verification exactly while
\* now < expiry, and is rejected as expired whenever now >= expiry.
C4_AcceptedUntilExpiry ==
    held.via # "none"
    => /\ (Verify(held.token).exc = NoExc) <=> (now < held.claims["exp"])
       /\ (now >= held.claims["exp"])
              => Verify(held.token).exc = "ExpiredSignatureError"

\* C5: every registered (name, secret) authenticates to its account; a
\* login token, before its expiry, resolves to the account with the id
\* authenticate_user returned, whatever else was registered meanwhile.
C5_EndToEnd ==
    /\ \A t \in registered :
           LET a == authenticate_user(users, t[1], t[2])
           IN a.exc = NoExc /\ a.user.id = t[3] /\ a.user.name = t[1]
    /\ (held.via = "login" /\ now < held.claims["exp"])
           => /\ Resolve(held.token).raised = OK
              /\ Resolve(held.token).user.id = held.authId
              /\ <<held.data["sub"], held.authId>>
                     \in {<<t[1], t[3]>> : t \in registered}
              /\ (resp.op = "get_current_user" /\ resp.variant = "held")
                     => resp.raised = OK /\ resp.userId = held.authId

C5_Witness ==
    /\ held.via = "login"
    /\ held.authId = 2
    /\ Len(users) = 2
    /\ users[2].name = "alice"
    /\ now > held.issuedAt
    /\ now < held.claims["exp"]
    /\ resp.op = "get_current_user"
    /\ resp.variant = "held"
    /\ resp.raised = OK
    /\ resp.userId = 2

\* C6: a token whose header names "none" or any algorithm other than HS256
\* is rejected by get_current_user and yields no account, whatever its
\* payload and whatever accounts exist.
C6_AlgorithmPinned ==
    /\ \A p \in Presentable(held) :
           (p[2].wellformed /\ p[2].alg # ALGORITHM)
           => /\ Resolve(p[2]).raised = credentials_exception
              /\ Resolve(p[2]).user = NoUser
    /\ (/\ resp.op = "get_current_user"
        /\ resp.variant \in {"alg_none", "alg_none_header", "alg_other",
                             "forged_none"})
           => resp.raised = credentials_exception /\ resp.userId = 0

C6_Witness ==
    /\ resp.op = "get_current_user"
    /\ resp.variant = "alg_none"
    /\ resp.raised = credentials_exception
    /\ held.data = [sub |-> "alice"]
    /\ Resolve(held.token).raised = OK
    /\ Resolve(held.token).user.id = 1

\* C7: an issued token with a byte of its signature flipped fails with a
\* failure that differs from the failure of a string that cannot be parsed.
C7_SignatureKindDistinct ==
    held.via # "none"
    => LET f == Resolve(FlipSignature(held.token))
           m == Resolve(MalformedToken)
       IN /\ Fails(f)
          /\ <<f.raised, f.exc>> # <<m.raised, m.exc>>

\* C8: for every ttl, 0 and negative ones included, the claims set
\* create_access_token builds carries an expiry equal to now + ttl, also
\* when the data passed in held an expiry.
C8_ExpiryIsNowPlusTtl ==
    (held.via = "direct" /\ held.delta # {})
    => /\ "exp" \in DOMAIN held.claims
       /\ held.claims["exp"] = held.issuedAt + Ttl(held)
       /\ "exp" \in DOMAIN held.token.claims

\* C9: verify_password never raises and answers false for a stored value
\* that is no well-formed hash; authenticate_user then returns its failure
\* value instead of raising.
C9_VerifyNeverRaises ==
    hres.op \in {"verify", "authenticate"}
    => /\ hres.exc = NoExc
       /\ (hres.stored.fmt # "bcrypt" => hres.val = FALSE)

\* C10: verify_password(s1, h) is true exactly when s1 is the secret h was
\* made from, for every hash made; two hashes of one secret differ.
C10_VerifyIffSameSecret ==
    \A i \in 1..Len(hashes) :
        hashes[i].exc = NoExc
        => /\ \A s1 \in Secrets :
                  (verify_password(s1, hashes[i].val) = [exc |-> NoExc, val |-> TRUE])
                  <=> (s1 = hashes[i].secret)
           /\ \A j \in 1..Len(hashes) :
                  (j # i /\ hashes[j].exc = NoExc)
                  => hashes[j].val # hashes[i].val

\* the requests that run get_current_user, by the op of their response
GatedOps == {"get_current_user", "create_product", "read_product", "create_sale"}
TokenFailures == {"decode", "nosub"}
\* the step is a call of get_current_user that the handler did not follow
ResolverOnly ==
    \/ resp'.op = "get_current_user"
    \/ resp'.op \in GatedOps /\ resp'.cause # ""
TablesUnchanged == users' = users /\ products' = products /\ sales' = sales

C12_OwnerOnly ==
    /\ \A p \in ShopTokens(held), q \in ProductIds :
           LET r == read_product(p[2], q, users, products, now)
               caller == Resolve(p[2])
               row == ProductById(products, q)
           IN /\ r.raised = OK
                  => /\ caller.raised = OK
                     /\ r.product = row
                     /\ row # NoProduct
                     /\ row.user_id = caller.user.id
              /\ (caller.raised = OK
                  /\ (row = NoProduct \/ row.user_id # caller.user.id))
                  => r.raised = ProductNotFound /\ r.product = NoProduct
    /\ resp.op = "read_product"
           => /\ resp.raised = OK
                  => /\ body.product # NoProduct
                     /\ body.product.id = body.product_id
                     /\ body.product.user_id = resp.userId
                     /\ resp.userId # 0
              /\ resp.raised # OK => body.product = NoProduct

C12_Witness ==
    /\ resp.op = "read_product"
    /\ resp.variant = "held"
    /\ resp.raised = ProductNotFound
    /\ resp.userId = 2
    /\ body.product = NoProduct
    /\ ProductById(products, body.product_id) # NoProduct
    /\ ProductById(products, body.product_id).user_id = 1

====
